---- MODULE Spec2Model ----
(***************************************************************************)
(* MailHarbor configuration compiler: the compilation cycle init_configs   *)
(* (load, validate, audit, render the Dovecot and Fetchmail artifacts) and *)
(* the debounced file watcher that re-runs it.                             *)
(*                                                                         *)
(* An account file <stem>.yaml is identified by its stem, a number in      *)
(* 1..NumAccounts.  A document is abstracted to the keys the code reads.   *)
(* Threads: 0 is the manual invocation (python -m src.init_config), i > 0  *)
(* is the thread of the i-th threading.Timer the watcher starts.           *)
(***************************************************************************)
EXTENDS Integers, Sequences, FiniteSets, TLC

\* ------------------------------------------------------------- bounds
NumAccounts == 2
MaxEvents == 3
MaxTime == 5

\* ---------------------------------------------------------- constants
\* threading.Timer(1.0, ...), in ticks of half a second
DEBOUNCE_TICKS == 2
RET_OK == 0
RET_FAIL == 1
ROOT_UID == 0
DOVECOT_GID == 102

Names == 1..NumAccounts
Main == 0
TimerIds == 1..MaxEvents
Threads == {Main} \cup TimerIds

\* ---------------------------------------------------------- documents
\* kind: "doc" (yaml.safe_load returns a mapping), "garbage" (it raises),
\* "nofile" (glob does not list the stem).
BaseDoc ==
  [kind |-> "doc", hasAccount |-> TRUE, hasSource |-> TRUE,
   username |-> "set", password |-> "set", protocol |-> "imap",
   host |-> TRUE, port |-> TRUE, enabled |-> "absent"]

GarbageDoc == [BaseDoc EXCEPT !.kind = "garbage"]
NoFile == [BaseDoc EXCEPT !.kind = "nofile"]

\* The parseable documents the model enumerates: the complete one and every
\* document that differs from it in one key.
ParsedDocs ==
  {BaseDoc,
   [BaseDoc EXCEPT !.enabled = "true"],
   [BaseDoc EXCEPT !.enabled = "false"],
   [BaseDoc EXCEPT !.hasAccount = FALSE],
   [BaseDoc EXCEPT !.hasSource = FALSE],
   [BaseDoc EXCEPT !.username = "absent"],
   [BaseDoc EXCEPT !.username = "empty"],
   [BaseDoc EXCEPT !.password = "absent"],
   [BaseDoc EXCEPT !.password = "empty"],
   [BaseDoc EXCEPT !.protocol = "absent"],
   [BaseDoc EXCEPT !.protocol = "pop3"],
   [BaseDoc EXCEPT !.protocol = "smtp"],
   [BaseDoc EXCEPT !.host = FALSE],
   [BaseDoc EXCEPT !.port = FALSE]}

FileStates == ParsedDocs \cup {GarbageDoc, NoFile}

\* ------------------------------------------------------- file modes
Mode0666 == {"ur", "uw", "gr", "gw", "or", "ow"}
Mode0600 == {"ur", "uw"}
Mode0640 == {"ur", "uw", "gr"}
\* umask 022 and umask 077
Umasks == {{"gw", "ow"}, {"gr", "gw", "or", "ow"}}

VARIABLES
  files,            \* <config_dir>/accounts/<stem>.yaml, by stem
  accountsDir,      \* whether <config_dir>/accounts exists
  globalFile,       \* <config_dir>/global.yaml
  certOnDisk,       \* os.path.exists(ssl_cert)
  keyOnDisk,        \* os.path.exists(ssl_key)
  fsRefuses,        \* whether /data can refuse a mkdir or a chown (a file in the
                    \* way, a read-only mount, no ownership support)
  main_conf,        \* /etc/dovecot/dovecot.conf
  users_file,       \* /etc/dovecot/users
  rc_file,          \* /etc/fetchmailrc
  roots,            \* /data/mail and /data/fts exist
  mailDirs,         \* stems whose /data/mail/<username> tree exists
  ftsDirs,          \* stems whose /data/fts/<username> exists
  pc,               \* per thread: the position inside init_configs
  ret,              \* per thread: <<>> or <<the value init_configs returned>>
  global_config,    \* per thread: ConfigManager.global_config
  account_configs,  \* per thread: ConfigManager.account_configs
  enabled_accounts, \* per thread: the list get_enabled_accounts returned
  audit,            \* per thread: what check_security_warnings logged about TLS
  wrote,            \* per thread: the artifacts this cycle has written so far
  provisioned,      \* per thread: the stems this cycle provisioned directories for
  provLog,          \* per thread: what _create_mailbox_directories met: the
                    \* directories whose chown it logged a warning for and
                    \* the loop in which a mkdir raised
  failedAccount,    \* per thread: the account validate_all raised on, 0 if none
  raised,           \* per thread: the exception init_configs caught, "none" if none
  now,              \* the clock, in ticks
  timers,           \* the threading.Timer objects on_modified created, by number
  debounce_timer    \* ConfigChangeHandler.debounce_timer: a timer's number, 0 for None

envVars == <<files, accountsDir, globalFile, certOnDisk, keyOnDisk, fsRefuses>>
fsVars == <<main_conf, users_file, rc_file, roots, mailDirs, ftsDirs>>
cycleVars == <<pc, ret, global_config, account_configs, enabled_accounts,
               audit, wrote, provisioned, provLog, failedAccount, raised>>
watchVars == <<now, timers, debounce_timer>>
vars == <<envVars, fsVars, cycleVars, watchVars>>

\* ------------------------------------------------------------ helpers
EmptyMap == [n \in {} |-> BaseDoc]

Perms(S) ==
  {s \in [1..Cardinality(S) -> S] : \A i, j \in 1..Cardinality(S) : s[i] = s[j] => i = j}

\* open(path, 'w') then write: an existing file keeps its mode and owner, a
\* new one gets 0666 & ~umask and the identity of the process.
OpenWrite(f, umask) ==
  IF f.exists THEN f
  ELSE [f EXCEPT !.exists = TRUE, !.mode = Mode0666 \ umask,
                 !.uid = ROOT_UID, !.gid = ROOT_UID]

NoGlobal == [exists |-> FALSE, ssl_cert |-> FALSE, ssl_key |-> FALSE]

\* _create_mailbox_directories has logged no warning and raised nothing
NoProvLog == [warned |-> {}, raisedIn |-> "none"]

\* ------------------------------------------------- ConfigManager
\* load_global_config: {} when the file is absent, else the parsed mapping.
\* ssl_cert / ssl_key are TRUE when the key holds a non-empty path.
LoadGlobal(g) == IF g.exists THEN g ELSE NoGlobal

\* The per-file try/except of load_account_configs: TRUE when the stem gets
\* an entry in the returned mapping.
LoadsIntoMapping_KeepsBroken(d) == d.kind # "nofile"

LoadsIntoMapping(d) == d.kind = "doc"

\* load_account_configs: {} when the directory is absent, else every listed
\* file that parses, keyed by stem.
LoadAccounts(dirExists, fs) ==
  IF ~dirExists THEN EmptyMap
  ELSE [n \in {m \in Names : fs[m].kind # "nofile" /\ LoadsIntoMapping(fs[m])} |-> fs[n]]

ProtocolOk_AcceptsAny(c) == c.protocol # "absent"

ProtocolOk(c) == c.protocol # "absent" /\ c.protocol \in {"imap", "pop3"}

\* 'username' in account and 'password' in account: key presence only
CredentialsPresent(c) == c.username # "absent" /\ c.password # "absent"

\* _validate_account_config: "ok" or the ValueError it raises
ValidateAccount(c) ==
  IF ~c.hasAccount \/ ~c.hasSource THEN "missing required sections"
  ELSE IF ~CredentialsPresent(c) THEN "missing credentials"
  ELSE IF ~ProtocolOk(c) THEN "invalid protocol"
  ELSE IF ~c.host \/ ~c.port THEN "missing server details"
  ELSE "ok"

\* validate_all over the mapping in iteration order ord: 0, or the stem of the
\* first account whose validation raises (the error is re-raised at once).
RECURSIVE ValidateAll(_, _)
ValidateAll(ord, cfgs) ==
  IF ord = <<>> THEN 0
  ELSE IF ValidateAccount(cfgs[Head(ord)]) # "ok" THEN Head(ord)
  ELSE ValidateAll(Tail(ord), cfgs)

\* check_security_warnings, the TLS part: what it logs
AuditTLS(g, cert, key) ==
  IF ~g.ssl_cert \/ ~g.ssl_key THEN "not configured"
  ELSE IF ~cert \/ ~key THEN "file not found"
  ELSE "ok"

IsEnabled_IgnoresFlag(c) == TRUE

\* config.get('enabled', True)
IsEnabled(c) == c.enabled # "false"

\* get_enabled_accounts: the stems of the enabled accounts
GetEnabled(cfgs) == {n \in DOMAIN cfgs : IsEnabled(cfgs[n])}

\* ------------------------------------------------- generators
SslEligible_TrustsAudit(g, cert, key, seen) == g.ssl_cert /\ g.ssl_key /\ seen = "ok"

\* _generate_main_config: ssl_enabled, from the paths and os.path.exists now;
\* seen is what the audit logged earlier, which the code does not read.
SslEligible(g, cert, key, seen) == g.ssl_cert /\ g.ssl_key /\ cert /\ key

\* if not username: continue
HasUsername(c) == c.username = "set"

\* FetchmailGenerator.generate_config: enabled_accounts
FetchEnabled(accs, cfgs) == {n \in accs : IsEnabled(cfgs[n])}

NoAccounts_NeverEmpty(accs) == FALSE

\* `if not account_configs:` in init_configs
NoAccounts(accs) == accs = {}

\* ------------------------------------------------- init_configs, step by step
Goto(t, p) == pc' = [pc EXCEPT ![t] = p]

\* return r
Return(t, r) == Goto(t, "done") /\ ret' = [ret EXCEPT ![t] = <<r>>]

\* An exception e reaches `except Exception` of init_configs: return 1
Raise(t, e) == Return(t, RET_FAIL) /\ raised' = [raised EXCEPT ![t] = e]

\* Entry of init_configs on thread t, up to the ensure_directory calls.
Begin(t) ==
  /\ Goto(t, "load_global")
  /\ ret' = [ret EXCEPT ![t] = <<>>]
  /\ global_config' = [global_config EXCEPT ![t] = NoGlobal]
  /\ account_configs' = [account_configs EXCEPT ![t] = EmptyMap]
  /\ enabled_accounts' = [enabled_accounts EXCEPT ![t] = {}]
  /\ audit' = [audit EXCEPT ![t] = "none"]
  /\ wrote' = [wrote EXCEPT ![t] = {}]
  /\ provisioned' = [provisioned EXCEPT ![t] = {}]
  /\ provLog' = [provLog EXCEPT ![t] = NoProvLog]
  /\ failedAccount' = [failedAccount EXCEPT ![t] = 0]
  /\ raised' = [raised EXCEPT ![t] = "none"]
  /\ roots' = TRUE
  /\ UNCHANGED <<main_conf, users_file, rc_file, mailDirs, ftsDirs>>

\* python -m src.init_config
ManualRun ==
  /\ pc[Main] \in {"idle", "done"}
  /\ Begin(Main)
  /\ UNCHANGED <<envVars, watchVars>>

LoadGlobalStep(t) ==
  /\ pc[t] = "load_global"
  /\ global_config' = [global_config EXCEPT ![t] = LoadGlobal(globalFile)]
  /\ Goto(t, "load_accounts")
  /\ UNCHANGED <<envVars, fsVars, watchVars, ret, account_configs, enabled_accounts,
                 audit, wrote, provisioned, provLog, failedAccount, raised>>

LoadAccountsStep(t) ==
  /\ pc[t] = "load_accounts"
  /\ account_configs' = [account_configs EXCEPT ![t] = LoadAccounts(accountsDir, files)]
  /\ Goto(t, "validate")
  /\ UNCHANGED <<envVars, fsVars, watchVars, ret, global_config, enabled_accounts,
                 audit, wrote, provisioned, provLog, failedAccount, raised>>

\* validate_all; the mapping is iterated in the order glob listed the files
ValidateStep(t) ==
  /\ pc[t] = "validate"
  /\ \E ord \in Perms(DOMAIN account_configs[t]) :
       LET bad == ValidateAll(ord, account_configs[t]) IN
       /\ failedAccount' = [failedAccount EXCEPT ![t] = bad]
       /\ IF bad = 0 THEN Goto(t, "audit") /\ UNCHANGED <<ret, raised>>
                     ELSE Raise(t, "ValueError")
  /\ UNCHANGED <<envVars, fsVars, watchVars, global_config, account_configs,
                 enabled_accounts, audit, wrote, provisioned, provLog>>

\* check_security_warnings
AuditStep(t) ==
  /\ pc[t] = "audit"
  /\ audit' = [audit EXCEPT ![t] = AuditTLS(global_config[t], certOnDisk, keyOnDisk)]
  /\ Goto(t, "get_enabled")
  /\ UNCHANGED <<envVars, fsVars, watchVars, ret, global_config, account_configs,
                 enabled_accounts, wrote, provisioned, provLog, failedAccount, raised>>

\* get_enabled_accounts and the `if not account_configs: return 1`
GetEnabledStep(t) ==
  /\ pc[t] = "get_enabled"
  /\ LET en == GetEnabled(account_configs[t]) IN
       /\ enabled_accounts' = [enabled_accounts EXCEPT ![t] = en]
       /\ IF NoAccounts(en) THEN Return(t, RET_FAIL)
                            ELSE Goto(t, "main_config") /\ ret' = ret
  /\ UNCHANGED <<envVars, fsVars, watchVars, global_config, account_configs,
                 audit, wrote, provisioned, provLog, failedAccount, raised>>

\* DovecotGenerator._generate_main_config
MainConfigStep(t) ==
  /\ pc[t] = "main_config"
  /\ main_conf' = [exists |-> TRUE,
                   ssl_enabled |-> SslEligible(global_config[t], certOnDisk,
                                               keyOnDisk, audit[t])]
  /\ wrote' = [wrote EXCEPT ![t] = @ \cup {"main"}]
  /\ Goto(t, "users_write")
  /\ UNCHANGED <<envVars, watchVars, users_file, rc_file, roots, mailDirs, ftsDirs,
                 ret, global_config, account_configs, enabled_accounts, audit,
                 provisioned, provLog, failedAccount, raised>>

\* _generate_users_file: open(output_file, 'w') and f.write(content)
UsersWriteStep(t) ==
  /\ pc[t] = "users_write"
  /\ \E umask \in Umasks :
       users_file' = [OpenWrite(users_file, umask) EXCEPT !.rows = enabled_accounts[t]]
  /\ wrote' = [wrote EXCEPT ![t] = @ \cup {"users"}]
  /\ Goto(t, "users_chmod")
  /\ UNCHANGED <<envVars, watchVars, main_conf, rc_file, roots, mailDirs, ftsDirs,
                 ret, global_config, account_configs, enabled_accounts, audit,
                 provisioned, provLog, failedAccount, raised>>

\* os.chmod(output_file, 0o640)
UsersChmodStep(t) ==
  /\ pc[t] = "users_chmod"
  /\ users_file' = [users_file EXCEPT !.mode = Mode0640]
  /\ Goto(t, "users_chown")
  /\ UNCHANGED <<envVars, watchVars, main_conf, rc_file, roots, mailDirs, ftsDirs,
                 ret, global_config, account_configs, enabled_accounts, audit,
                 wrote, provisioned, provLog, failedAccount, raised>>

\* (the ownership of the credentials file left as open() made it)
ChownUsers_Skipped(f) == f

\* os.chown(output_file, 0, 102): owner uid 0, group 102
ChownUsers(f) == [f EXCEPT !.uid = ROOT_UID, !.gid = DOVECOT_GID]

\* os.chown(output_file, 0, 102), outside any try: an OSError ends the cycle
UsersChownStep(t) ==
  /\ pc[t] = "users_chown"
  /\ \E ok \in BOOLEAN :
       IF ok THEN /\ users_file' = ChownUsers(users_file)
                  /\ Goto(t, "mkdirs") /\ UNCHANGED <<ret, raised>>
             ELSE /\ users_file' = users_file
                  /\ Raise(t, "OSError")
  /\ UNCHANGED <<envVars, watchVars, main_conf, rc_file, roots, mailDirs, ftsDirs,
                 global_config, account_configs, enabled_accounts, audit,
                 wrote, provisioned, provLog, failedAccount>>

\* In the provisioning step the base directory of a loop (/data/mail or
\* /data/fts) stands beside the accounts' stems under this name.
BaseDir == 0

\* The stems a loop over the list ord has handled when the mkdir of the
\* directories in bad raises: all of them when none does, none when the base
\* directory's does, else the stems before the one that failed.
Before(ord, bad) ==
  IF bad = {} THEN {ord[j] : j \in DOMAIN ord}
  ELSE IF BaseDir \in bad THEN {}
  ELSE {ord[j] : j \in {k \in DOMAIN ord : \A m \in 1..k : ord[m] \notin bad}}

\* The mkdir calls of _create_mailbox_directories stand outside every try:
\* none raises, or the first that raises is the one of a base directory or of
\* an account.
MkdirFaults(who) ==
  IF fsRefuses THEN {{}} \cup {{d} : d \in who \cup {BaseDir}} ELSE {{}}

\* The chown calls stand inside try/except Exception: the directories whose
\* chown raises; each is logged as a warning.
ChownFaults(who) == IF fsRefuses THEN SUBSET (who \cup {BaseDir}) ELSE {{}}

\* _create_mailbox_directories: the mailbox loop, then the search-index loop,
\* over the accounts in list order, skipping empty usernames.  A mkdir that
\* raises in one of the loops ends the cycle with the earlier directories
\* made; a chown that raises is logged and the loop goes on.
MkdirsStep(t) ==
  /\ pc[t] = "mkdirs"
  /\ LET who == {n \in enabled_accounts[t] : HasUsername(account_configs[t][n])} IN
     \E ord \in Perms(who), bad \in MkdirFaults(who), loop \in {"mail", "fts"},
        ch \in ChownFaults(who) :
       LET mailDone == IF loop = "mail" THEN Before(ord, bad) ELSE who
           ftsDone == IF bad = {} THEN who
                      ELSE IF loop = "mail" THEN {} ELSE Before(ord, bad)
           reached == mailDone \cup ftsDone \cup
                        (IF loop = "mail" /\ BaseDir \in bad THEN {} ELSE {BaseDir})
       IN
       /\ mailDirs' = mailDirs \cup mailDone
       /\ ftsDirs' = ftsDirs \cup ftsDone
       /\ provisioned' = [provisioned EXCEPT ![t] = mailDone]
       /\ provLog' = [provLog EXCEPT ![t] =
                        [warned |-> ch \cap reached,
                         raisedIn |-> IF bad = {} THEN "none" ELSE loop]]
       /\ IF bad = {} THEN Goto(t, "rc_generate") /\ UNCHANGED <<ret, raised>>
                      ELSE Raise(t, "OSError")
  /\ UNCHANGED <<envVars, watchVars, main_conf, users_file, rc_file, roots,
                 global_config, account_configs, enabled_accounts, audit,
                 wrote, failedAccount>>

\* FetchmailGenerator.generate_config up to f.write(content)
RcGenerateStep(t) ==
  /\ pc[t] = "rc_generate"
  /\ LET en == FetchEnabled(enabled_accounts[t], account_configs[t]) IN
       IF en = {}
       THEN /\ UNCHANGED <<rc_file, wrote>>
            /\ Return(t, RET_OK)
       ELSE /\ \E umask \in Umasks :
                 rc_file' = [OpenWrite(rc_file, umask) EXCEPT !.accounts = en]
            /\ wrote' = [wrote EXCEPT ![t] = @ \cup {"rc"}]
            /\ Goto(t, "rc_chmod") /\ ret' = ret
  /\ UNCHANGED <<envVars, watchVars, main_conf, users_file, roots, mailDirs, ftsDirs,
                 global_config, account_configs, enabled_accounts, audit,
                 provisioned, provLog, failedAccount, raised>>

\* os.chmod(output_file, 0o600), then init_configs returns 0
RcChmodStep(t) ==
  /\ pc[t] = "rc_chmod"
  /\ rc_file' = [rc_file EXCEPT !.mode = Mode0600]
  /\ Return(t, RET_OK)
  /\ UNCHANGED <<envVars, watchVars, main_conf, users_file, roots, mailDirs, ftsDirs,
                 global_config, account_configs, enabled_accounts, audit,
                 wrote, provisioned, provLog, failedAccount, raised>>

CycleStep(t) ==
  \/ LoadGlobalStep(t)
  \/ LoadAccountsStep(t)
  \/ ValidateStep(t)
  \/ AuditStep(t)
  \/ GetEnabledStep(t)
  \/ MainConfigStep(t)
  \/ UsersWriteStep(t)
  \/ UsersChmodStep(t)
  \/ UsersChownStep(t)
  \/ MkdirsStep(t)
  \/ RcGenerateStep(t)
  \/ RcChmodStep(t)

\* ------------------------------------------------- initial states
InitFs ==
  /\ main_conf = [exists |-> FALSE, ssl_enabled |-> FALSE]
  /\ users_file = [exists |-> FALSE, mode |-> {}, uid |-> ROOT_UID, gid |-> ROOT_UID,
                   rows |-> {}]
  /\ rc_file = [exists |-> FALSE, mode |-> {}, uid |-> ROOT_UID, gid |-> ROOT_UID,
                accounts |-> {}]
  /\ roots = FALSE
  /\ mailDirs = {}
  /\ ftsDirs = {}

InitCycles ==
  /\ pc = [t \in Threads |-> "idle"]
  /\ ret = [t \in Threads |-> <<>>]
  /\ global_config = [t \in Threads |-> NoGlobal]
  /\ account_configs = [t \in Threads |-> EmptyMap]
  /\ enabled_accounts = [t \in Threads |-> {}]
  /\ audit = [t \in Threads |-> "none"]
  /\ wrote = [t \in Threads |-> {}]
  /\ provisioned = [t \in Threads |-> {}]
  /\ provLog = [t \in Threads |-> NoProvLog]
  /\ failedAccount = [t \in Threads |-> 0]
  /\ raised = [t \in Threads |-> "none"]

NoTimer == [state |-> "unused", start |-> 0, firedAt |-> 0, latest |-> FALSE]

InitWatch ==
  /\ now = 0
  /\ timers = [i \in TimerIds |-> NoTimer]
  /\ debounce_timer = 0

\* ------------------------------------------------- ConfigChangeHandler
\* event.is_directory or not event.src_path.endswith('.yaml'): return
Matches(isDir, yaml) == ~isDir /\ yaml

CancelTimer_Forgotten(tm) == tm

\* Timer.cancel(): sets the timer's finished event; a timer still waiting
\* wakes and ends without calling its function, a finished one is unaffected.
CancelTimer(tm) == IF tm.state = "waiting" THEN [tm EXCEPT !.state = "cancelled"] ELSE tm

\* Timer.run: finished.wait(interval) has timed out
Expired(tm, clock) == clock - tm.start >= DEBOUNCE_TICKS

NumEvents == Cardinality({i \in TimerIds : timers[i].state # "unused"})

\* on_modified(event), the event being the (NumEvents + 1)-th delivered
OnModified ==
  /\ NumEvents < MaxEvents
  /\ \E isDir \in BOOLEAN, yaml \in BOOLEAN :
       LET i == NumEvents + 1 IN
       IF ~Matches(isDir, yaml)
       THEN /\ timers' = [timers EXCEPT ![i].state = "ignored", ![i].start = now]
            /\ UNCHANGED debounce_timer
       ELSE /\ timers' =
                 [j \in TimerIds |->
                    IF j = i THEN [NoTimer EXCEPT !.state = "waiting", !.start = now]
                    ELSE IF j = debounce_timer THEN CancelTimer(timers[j])
                    ELSE timers[j]]
            /\ debounce_timer' = i
  /\ UNCHANGED <<envVars, fsVars, cycleVars, now>>

\* Timer.run on the timer's own thread: the wait timed out, finished is not
\* set, so self.function() is called: the callback is init_configs.
TimerFire(i) ==
  /\ timers[i].state = "waiting"
  /\ Expired(timers[i], now)
  /\ timers' = [timers EXCEPT ![i].state = "fired", ![i].firedAt = now,
                              ![i].latest = (debounce_timer = i)]
  /\ Begin(i)
  /\ UNCHANGED <<envVars, now, debounce_timer>>

\* Half a second passes.  A timer whose wait has timed out runs before the
\* clock moves on.
Tick ==
  /\ now < MaxTime
  /\ \A i \in TimerIds : ~(timers[i].state = "waiting" /\ Expired(timers[i], now))
  /\ now' = now + 1
  /\ UNCHANGED <<envVars, fsVars, cycleVars, timers, debounce_timer>>

\* ------------------------------------------------- environment
AllComplete == accountsDir /\ \A n \in Names : files[n] = BaseDoc

\* The process of a manual run has exited and somebody rewrites one account
\* file of a complete tree before the next run.
EditFile ==
  /\ pc[Main] = "done"
  /\ AllComplete
  /\ \E n \in Names, d \in FileStates \ {BaseDoc} : files' = [files EXCEPT ![n] = d]
  /\ pc' = [pc EXCEPT ![Main] = "idle"]
  /\ ret' = [ret EXCEPT ![Main] = <<>>]
  /\ global_config' = [global_config EXCEPT ![Main] = NoGlobal]
  /\ account_configs' = [account_configs EXCEPT ![Main] = EmptyMap]
  /\ enabled_accounts' = [enabled_accounts EXCEPT ![Main] = {}]
  /\ audit' = [audit EXCEPT ![Main] = "none"]
  /\ wrote' = [wrote EXCEPT ![Main] = {}]
  /\ provisioned' = [provisioned EXCEPT ![Main] = {}]
  /\ provLog' = [provLog EXCEPT ![Main] = NoProvLog]
  /\ failedAccount' = [failedAccount EXCEPT ![Main] = 0]
  /\ raised' = [raised EXCEPT ![Main] = "none"]
  /\ UNCHANGED <<accountsDir, globalFile, certOnDisk, keyOnDisk, fsRefuses, fsVars, watchVars>>

\* The certificate file appears or disappears.
ToggleCert ==
  /\ certOnDisk' = ~certOnDisk
  /\ UNCHANGED <<files, accountsDir, globalFile, keyOnDisk, fsRefuses, fsVars, cycleVars,
                 watchVars>>

\* The key file appears or disappears.
ToggleKey ==
  /\ keyOnDisk' = ~keyOnDisk
  /\ UNCHANGED <<files, accountsDir, globalFile, certOnDisk, fsRefuses, fsVars, cycleVars,
                 watchVars>>

\* ------------------------------------------------- specifications
\* Any content of the accounts directory, no global.yaml.
Init ==
  /\ accountsDir \in BOOLEAN
  /\ files \in (IF accountsDir THEN [Names -> FileStates] ELSE {[n \in Names |-> NoFile]})
  /\ globalFile = NoGlobal
  /\ certOnDisk = FALSE
  /\ keyOnDisk = FALSE
  /\ fsRefuses = TRUE
  /\ InitFs /\ InitCycles /\ InitWatch

Next ==
  \/ ManualRun
  \/ CycleStep(Main)
  \/ EditFile

\* Manual runs over any accounts directory.
Spec == Init /\ [][Next]_vars

\* Any global.yaml and any certificate and key files, complete accounts.
InitTLS ==
  /\ accountsDir = TRUE
  /\ files = [n \in Names |-> BaseDoc]
  /\ globalFile \in {NoGlobal} \cup [exists : {TRUE}, ssl_cert : BOOLEAN, ssl_key : BOOLEAN]
  /\ certOnDisk \in BOOLEAN
  /\ keyOnDisk \in BOOLEAN
  /\ fsRefuses = FALSE
  /\ InitFs /\ InitCycles /\ InitWatch

NextTLS ==
  \/ ManualRun
  \/ CycleStep(Main)
  \/ ToggleCert
  \/ ToggleKey

\* Manual runs while the TLS material comes and goes.
SpecTLS == InitTLS /\ [][NextTLS]_vars

InitWatched ==
  /\ accountsDir = TRUE
  /\ files = [n \in Names |-> BaseDoc]
  /\ globalFile = NoGlobal
  /\ certOnDisk = FALSE
  /\ keyOnDisk = FALSE
  /\ fsRefuses = FALSE
  /\ InitFs /\ InitCycles /\ InitWatch

NextDebounce ==
  \/ OnModified
  \/ \E i \in TimerIds : TimerFire(i)
  \/ Tick

\* The watcher alone: events, timers and the clock.
SpecDebounce == InitWatched /\ [][NextDebounce]_vars

NextWatch ==
  \/ OnModified
  \/ \E i \in TimerIds : TimerFire(i)
  \/ Tick
  \/ ManualRun
  \/ \E t \in Threads : CycleStep(t)

\* The watcher, the cycles its timers start and manual runs, interleaved.
SpecWatch == InitWatched /\ [][NextWatch]_vars

\* ------------------------------------------------- claims: shared vocabulary
\* The claims' own reading of a structurally invalid account document.
StructurallyInvalid(c) ==
  \/ ~c.hasAccount \/ ~c.hasSource
  \/ c.username = "absent" \/ c.password = "absent"
  \/ c.protocol \notin {"imap", "pop3"}
  \/ ~c.host \/ ~c.port

Loaded(t) == DOMAIN account_configs[t]
LoadedInvalid(t) == \E n \in Loaded(t) : StructurallyInvalid(account_configs[t][n])
PastLoad(t) == pc[t] \notin {"idle", "load_global", "load_accounts"}
PastValidation(t) == PastLoad(t) /\ pc[t] # "validate"
ReturnedNonZero(t) == pc[t] = "done" /\ Len(ret[t]) = 1 /\ ret[t][1] # RET_OK
ReturnedZero(t) == pc[t] = "done" /\ ret[t] = <<RET_OK>>
Parseable == {n \in Names : accountsDir /\ files[n].kind = "doc"}
Unparseable == {n \in Names : accountsDir /\ files[n].kind = "garbage"}
DisabledOf(t) == {n \in Loaded(t) : account_configs[t][n].enabled = "false"}
FlagAbsentOf(t) == {n \in Loaded(t) : account_configs[t][n].enabled = "absent"}

\* C1: a cycle whose loaded accounts include a structurally invalid one writes
\* no artifact and provisions no directory, before or after validation, and
\* once validation has run it has ended returning non-zero; the iteration
\* order of validate_all is arbitrary.
C1_AllOrNothing ==
  \A t \in Threads :
    LoadedInvalid(t) =>
      /\ wrote[t] = {}
      /\ provisioned[t] = {}
      /\ PastValidation(t) => ReturnedNonZero(t)

\* A failed cycle over one invalid and one valid enabled account, with the
\* artifacts of an earlier cycle still on disk.
C1_Witness ==
  /\ ReturnedNonZero(Main)
  /\ failedAccount[Main] # 0
  /\ \E n \in Loaded(Main) : /\ ~StructurallyInvalid(account_configs[Main][n])
                            /\ account_configs[Main][n].enabled # "false"
  /\ main_conf.exists /\ users_file.exists /\ rc_file.exists

\* C2: load_account_configs keeps exactly the files that parse; when some file
\* does not parse and the others are complete and enabled, no exception of the
\* load or of validation ends the cycle, and a cycle that the operating system
\* lets finish returns 0 with every remaining account in the credentials
\* file and in the rc file.
C2_ParseFaultTolerance ==
  \A t \in Threads :
    PastLoad(t) =>
      /\ Loaded(t) = Parseable
      /\ ( /\ Unparseable # {}
           /\ Parseable # {}
           /\ \A n \in Parseable : ~StructurallyInvalid(files[n]) /\ files[n].enabled # "false" )
         => /\ raised[t] # "ValueError"
            /\ (pc[t] = "done" /\ raised[t] = "none") =>
                 /\ ReturnedZero(t)
                 /\ users_file.rows = Parseable
                 /\ rc_file.accounts = Parseable

\* A finished cycle over one unparseable file and one complete account.
C2_Witness ==
  /\ ReturnedZero(Main)
  /\ Unparseable # {}
  /\ Parseable # {}
  /\ rc_file.accounts = Parseable
  /\ users_file.rows = Parseable

\* C3: what a cycle writes and provisions never includes an account whose
\* enabled flag is false, and an account without the flag is in the enabled
\* list and in every artifact the cycle writes.
C3_DisabledNeverCompiled ==
  \A t \in Threads :
    /\ enabled_accounts[t] \cap DisabledOf(t) = {}
    /\ provisioned[t] \cap DisabledOf(t) = {}
    /\ "users" \in wrote[t] =>
         users_file.rows \cap DisabledOf(t) = {} /\ FlagAbsentOf(t) \subseteq users_file.rows
    /\ "rc" \in wrote[t] =>
         rc_file.accounts \cap DisabledOf(t) = {} /\ FlagAbsentOf(t) \subseteq rc_file.accounts
    /\ pc[t] \in {"main_config", "users_write", "users_chmod", "users_chown", "mkdirs",
                  "rc_generate", "rc_chmod"} => FlagAbsentOf(t) \subseteq enabled_accounts[t]

\* A successful cycle over a disabled account and one without the flag.
C3_Witness ==
  /\ ReturnedZero(Main)
  /\ DisabledOf(Main) # {}
  /\ FlagAbsentOf(Main) # {}
  /\ wrote[Main] = {"main", "users", "rc"}

ValidatedNoneEnabled(t) ==
  /\ pc[t] = "done"
  /\ audit[t] # "none"
  /\ Loaded(t) = DisabledOf(t)

\* C4 as stated: a cycle that validates and finds no enabled account leaves
\* the rc file unwritten and still writes the main config and the roots.
C4_Original ==
  \A t \in Threads :
    ValidatedNoneEnabled(t) => "rc" \notin wrote[t] /\ "main" \in wrote[t] /\ roots

\* C4 amended: such a cycle returns non-zero having written none of the three
\* artifacts and provisioned no account; only the two root directories, made
\* by ensure_directory at the start of init_configs, exist.
C4_NoEnabledAccounts ==
  \A t \in Threads :
    ValidatedNoneEnabled(t) =>
      /\ wrote[t] = {}
      /\ provisioned[t] = {}
      /\ ReturnedNonZero(t)
      /\ roots

\* A validated cycle whose only loaded accounts are disabled.
C4_Witness ==
  /\ ValidatedNoneEnabled(Main)
  /\ Loaded(Main) # {}
  /\ raised[Main] = "none"

\* ------------------------------------------------- claims: the watcher
Armed == {i \in TimerIds : timers[i].state \in {"waiting", "cancelled", "fired"}}
LaterArmed(i) == {j \in Armed : j > i}
HasNextEvent(i) == LaterArmed(i) # {}
NextEvent(i) == CHOOSE j \in LaterArmed(i) : \A k \in LaterArmed(i) : j <= k
GapAfter(i) == timers[NextEvent(i)].start - timers[i].start

\* C5: of the timers a run of matching events starts, one that is followed by
\* another matching event less than the debounce period later is cancelled
\* and never calls back; one that calls back does so a full period or more
\* after its event, as the handler's current timer, with no matching event
\* in between; and once more than a period has passed after an event with no
\* matching event in that period, its timer has called back.  Each timer
\* calls back at most once, so a burst gives exactly one callback.
C5_DebounceCoalescing ==
  \A i \in Armed :
    /\ timers[i].state = "fired" =>
         /\ timers[i].firedAt - timers[i].start >= DEBOUNCE_TICKS
         /\ timers[i].latest
         /\ HasNextEvent(i) => timers[NextEvent(i)].start >= timers[i].firedAt
    /\ (HasNextEvent(i) /\ GapAfter(i) < DEBOUNCE_TICKS) => timers[i].state = "cancelled"
    /\ (HasNextEvent(i) /\ GapAfter(i) > DEBOUNCE_TICKS) => timers[i].state = "fired"
    /\ (~HasNextEvent(i) /\ now - timers[i].start > DEBOUNCE_TICKS) => timers[i].state = "fired"

\* Three matching events, each less than a period after the one before: the
\* first two timers are cancelled and the third has called back.
C5_Witness ==
  /\ Armed = {1, 2, 3}
  /\ GapAfter(1) < DEBOUNCE_TICKS /\ GapAfter(2) < DEBOUNCE_TICKS
  /\ timers[2].start > timers[1].start
  /\ timers[1].state = "cancelled" /\ timers[2].state = "cancelled"
  /\ timers[3].state = "fired"

Running == {t \in Threads : pc[t] \notin {"idle", "done"}}

\* C6 as stated: at most one compilation cycle executes at any time.
C6_Original == Cardinality(Running) <= 1

\* ------------------------------------------------- claims: exit and artifacts
OnDisk(a) ==
  CASE a = "main" -> main_conf.exists
    [] a = "users" -> users_file.exists
    [] a = "rc" -> rc_file.exists

\* C7: a cycle returns 0 or 1; it returns 0 only when nothing was raised, no
\* loaded account is structurally invalid, some loaded account is enabled and
\* the cycle wrote the main config, the credentials file and the rc file;
\* whatever it returns, what it wrote is still on disk, and no step of any
\* cycle removes an artifact that exists.
C7_ExitContract ==
  /\ [](\A t \in Threads :
          /\ pc[t] = "done" => ret[t] \in {<<RET_OK>>, <<RET_FAIL>>}
          /\ ReturnedZero(t) =>
               /\ raised[t] = "none"
               /\ ~LoadedInvalid(t)
               /\ Loaded(t) \ DisabledOf(t) # {}
               /\ wrote[t] = {"main", "users", "rc"}
          /\ \A a \in wrote[t] : OnDisk(a))
  /\ [][ /\ main_conf.exists => main_conf'.exists
         /\ users_file.exists => users_file'.exists
         /\ rc_file.exists => rc_file'.exists
         /\ mailDirs \subseteq mailDirs' /\ ftsDirs \subseteq ftsDirs' ]_vars

\* A cycle that wrote the main config and the credentials file and then
\* failed, with the rc file of an earlier cycle still on disk.
C7_Witness ==
  /\ ReturnedNonZero(Main)
  /\ wrote[Main] = {"main", "users"}
  /\ rc_file.exists /\ rc_file.accounts # {}

\* C8: the step that renders the main config leaves ssl_enabled false whenever
\* a path is unset or a file is missing at that step, whatever the audit of
\* the same cycle logged.
C8_TlsRecheckedAtRender ==
  [][ \A t \in Threads :
        (pc[t] = "main_config" /\ pc'[t] = "users_write") =>
          /\ main_conf'.exists
          /\ ( \/ ~global_config[t].ssl_cert \/ ~global_config[t].ssl_key
               \/ ~certOnDisk \/ ~keyOnDisk ) => ~main_conf'.ssl_enabled ]_vars

\* The audit found both files, one was gone when the main config was
\* rendered, and the secure port is off.
C8_Witness ==
  /\ pc[Main] = "users_write"
  /\ audit[Main] = "ok"
  /\ ~main_conf.ssl_enabled
  /\ ~certOnDisk

\* C9 as stated: every account of a mapping that passed validation has both
\* sections, a non-empty username and password, a protocol of imap or pop3,
\* a host and a port; so has every account handed to the generators.
C9_Original ==
  \A t \in Threads :
    (PastValidation(t) /\ raised[t] # "ValueError") =>
      \A n \in Loaded(t) \cup enabled_accounts[t] :
        LET c == account_configs[t][n] IN
        /\ c.hasAccount /\ c.hasSource
        /\ c.username = "set" /\ c.password = "set"
        /\ c.protocol \in {"imap", "pop3"}
        /\ c.host /\ c.port

\* C10 as stated: whenever the rc file exists with account entries in it, its
\* permission bits are 0600.
C10_Original == (rc_file.exists /\ rc_file.accounts # {}) => rc_file.mode = Mode0600

\* What the provisioning of cycle t was asked to cover
ToProvision(t) == {n \in enabled_accounts[t] : HasUsername(account_configs[t][n])}

\* A directory could not be made, or its ownership not changed, in cycle t
ProvisioningFailed(t) == provLog[t].warned # {} \/ provLog[t].raisedIn # "none"

\* C11 as stated: a cycle in which a mailbox or search-index directory could
\* not be created, or its ownership not changed, raises nothing, still
\* provisions every account it was given, and ends returning zero with the
\* rc file written for the accounts that fetch.
C11_Original ==
  \A t \in Threads :
    ProvisioningFailed(t) =>
      /\ raised[t] = "none"
      /\ provisioned[t] = ToProvision(t)
      /\ pc[t] = "done" =>
           /\ ReturnedZero(t)
           /\ FetchEnabled(enabled_accounts[t], account_configs[t]) # {} => "rc" \in wrote[t]

\* Cycle t has ended after writing the credentials file
WroteUsers(t) == pc[t] = "done" /\ "users" \in wrote[t]

\* The os.chown of the credentials file returned in cycle t: the cycle raised
\* nothing, or what it raised came from the provisioning that follows
ChownReturned(t) == raised[t] = "none" \/ provLog[t].raisedIn # "none"

\* C12 as stated: after every cycle that writes the credentials file, the
\* file has permission bits 0640 and its owning user is not root (uid 0).
C12_Original ==
  \A t \in Threads :
    WroteUsers(t) => users_file.mode = Mode0640 /\ users_file.uid # ROOT_UID

\* C12, amended: after every cycle that writes the credentials file, the file
\* has permission bits 0640, and once the ownership change has returned it is
\* owned by uid 0 (root) with group 102.
C12_CredentialsFileProtection ==
  \A t \in Threads :
    WroteUsers(t) =>
      /\ users_file.exists
      /\ users_file.mode = Mode0640
      /\ ChownReturned(t) => users_file.uid = ROOT_UID /\ users_file.gid = DOVECOT_GID

\* A cycle wrote the credentials file, changed its ownership and returned
\* zero: the file is 0640, root's, group 102.
C12_Witness ==
  /\ ReturnedZero(Main) /\ WroteUsers(Main)
  /\ users_file.mode = Mode0640
  /\ users_file.uid = ROOT_UID /\ users_file.gid = DOVECOT_GID
====
